---------------------------- MODULE Spec2Model ----------------------------
(***************************************************************************)
(* Model of the POST /api/meta/custom-audience handler of src/server.js.   *)
(*                                                                         *)
(* One request is followed from its arrival to its HTTP response.  The     *)
(* handler is an async function: the code between two awaits runs          *)
(* atomically on the event loop, so each action below is one such segment  *)
(* (from the resumption after an await up to the next await or return).    *)
(* The outbound fetch calls are kept in `calls`, the outcomes the platform *)
(* gave in `responses`; a call is outstanding while it has no outcome.     *)
(***************************************************************************)
EXTENDS Integers, Sequences, FiniteSets, TLC

VARIABLES
    req,            \* req.body: [name, customers]
    pc,             \* position of the handler: start, awaitCreate, awaitUpload, done
    calls,          \* outbound platform calls issued so far, in issue order
    responses,      \* outcomes of the outbound calls, in the order received
    audienceId,     \* const audienceId (server.js:99)
    fieldGroups,    \* const fieldGroups (server.js:105), in key insertion order
    gi,             \* position of the for..of loop in Object.entries(fieldGroups)
    i,              \* let i of the inner for loop (server.js:156)
    totalUploaded,  \* let totalUploaded (server.js:149)
    res,            \* HTTP responses sent on res, in order
    now,            \* the clock read by Date.now()
    other           \* a second invocation of the handler: its own req, pc,
                    \* calls, responses, res and local variables, as a record

vars == <<req, pc, calls, responses, audienceId, fieldGroups, gi, i,
          totalUploaded, res, now, other>>

----------------------------------------------------------------------------
(* Bounds of the model *)

\* customers arrays of up to MaxCustomers records are enumerated exhaustively
MaxCustomers == 3
\* longer arrays, up to MaxPeriodic records, alternate between two records
MaxPeriodic == 5
\* largest value the clock reaches
MaxClock == 1
\* longest customers array of each of two concurrent requests
MaxConcCustomers == 2

\* const BATCH_SIZE (server.js:148).  The source value is 10000; the model
\* scales it down so that groups of more than two batches are reachable.
\* Every formula below is stated in terms of BATCH_SIZE, not of its value.
BATCH_SIZE == 2

----------------------------------------------------------------------------
(* JavaScript values *)

\* A field of a customer record: undefined, or a string (a sequence of
\* one-character strings; <<>> is the empty string).
Undefined == [def |-> FALSE, s |-> <<>>]
Str(s) == [def |-> TRUE, s |-> s]

\* JavaScript truthiness of such a value: undefined and "" are falsy.
Truthy(v) == v.def /\ v.s # <<>>

Min(a, b) == IF a <= b THEN a ELSE b

\* String(n) for a non-negative integer: its decimal digits.
DigitChar == <<"0", "1", "2", "3", "4", "5", "6", "7", "8", "9">>

RECURSIVE Digits(_)
Digits(n) ==
    IF n < 10 THEN <<DigitChar[n + 1]>>
    ELSE Digits(n \div 10) \o <<DigitChar[(n % 10) + 1]>>

\* Array.prototype.join
RECURSIVE Join(_, _)
Join(arr, sep) ==
    IF Len(arr) = 0 THEN <<>>
    ELSE IF Len(arr) = 1 THEN <<arr[1]>>
    ELSE <<arr[1], sep>> \o Join(Tail(arr), sep)

\* String.prototype.toLowerCase on the alphabet of the model
LowerChar(c) ==
    CASE c = "A" -> "a"
      [] c = "B" -> "b"
      [] OTHER -> c

toLowerCase(s) == [k \in 1..Len(s) |-> LowerChar(s[k])]

\* String.prototype.trim
RECURSIVE TrimStart(_)
TrimStart(s) ==
    IF Len(s) > 0 /\ s[1] = " " THEN TrimStart(Tail(s)) ELSE s

RECURSIVE TrimEnd(_)
TrimEnd(s) ==
    IF Len(s) > 0 /\ s[Len(s)] = " " THEN TrimEnd(SubSeq(s, 1, Len(s) - 1)) ELSE s

trim(s) == TrimEnd(TrimStart(s))

\* crypto.createHash('sha256').update(x).digest('hex'): a digest is modelled
\* as a collision-free tag of the hashed string.
sha256hex(s) == <<"sha256:">> \o s

\* hashData (server.js:62): null is modelled as the empty sequence
hashData(value) ==
    IF ~Truthy(value) THEN <<>>
    ELSE sha256hex(trim(toLowerCase(value.s)))


----------------------------------------------------------------------------
(* Step 2 of the handler: hashing and grouping (server.js:105-139) *)

\* const fieldsPresent of one customer (server.js:111-128): the names of the
\* truthy fields, tested in the order email, phone, fn, ln
FieldsPresent(c) ==
    (IF Truthy(c.email) THEN <<"EMAIL">> ELSE <<>>)
    \o (IF Truthy(c.phone) THEN <<"PHONE">> ELSE <<>>)
    \o (IF Truthy(c.fn) THEN <<"FN">> ELSE <<>>)
    \o (IF Truthy(c.ln) THEN <<"LN">> ELSE <<>>)

\* const row of one customer (server.js:112-128)
Row(c) ==
    (IF Truthy(c.email) THEN <<hashData(c.email)>> ELSE <<>>)
    \o (IF Truthy(c.phone) THEN <<hashData(c.phone)>> ELSE <<>>)
    \o (IF Truthy(c.fn) THEN <<hashData(c.fn)>> ELSE <<>>)
    \o (IF Truthy(c.ln) THEN <<hashData(c.ln)>> ELSE <<>>)

\* faulty variant of GroupKey: the key is the first present field only
GroupKeyFirstField(fieldsPresent) == <<fieldsPresent[1]>>

\* const key = fieldsPresent.join(',') (server.js:131)
GroupKey(fieldsPresent) == Join(fieldsPresent, ",")

\* position of key among the own keys of fieldGroups, 0 when absent
KeyIndex(fg, key) ==
    IF \E k \in 1..Len(fg) : fg[k].key = key
    THEN CHOOSE k \in 1..Len(fg) : fg[k].key = key
    ELSE 0

\* faulty variant of AddRow: the group is created anew for every row
AddRowOverwrite(fg, key, schema, row) ==
    LET k == KeyIndex(fg, key) IN
    IF k = 0
    THEN Append(fg, [key |-> key, schema |-> schema, data |-> <<row>>])
    ELSE [fg EXCEPT ![k].data = <<row>>]

\* server.js:132-138: create the group on first sight of the key (a new
\* string key goes last in the object's key order), then push the row
AddRow(fg, key, schema, row) ==
    LET k == KeyIndex(fg, key) IN
    IF k = 0
    THEN Append(fg, [key |-> key, schema |-> schema, data |-> <<row>>])
    ELSE [fg EXCEPT ![k].data = Append(@, row)]

\* body of the forEach callback (server.js:110-139)
GroupOne(fg, c) ==
    LET fieldsPresent == FieldsPresent(c)
        row == Row(c)
    IN  IF Len(row) = 0 THEN fg
        ELSE AddRow(fg, GroupKey(fieldsPresent), fieldsPresent, row)

\* customers.forEach(...) starting from the empty object
RECURSIVE GroupFrom(_, _)
GroupFrom(fg, cs) ==
    IF Len(cs) = 0 THEN fg
    ELSE GroupFrom(GroupOne(fg, Head(cs)), Tail(cs))

GroupCustomers(cs) == GroupFrom(<<>>, cs)

\* faulty variant of Entries: the groups are visited last-created first
EntriesReversed(fg) == [k \in 1..Len(fg) |-> fg[Len(fg) + 1 - k]]

\* Object.entries(fieldGroups): the keys are never integer-like, so the
\* entries come in insertion order
Entries(fg) == fg

----------------------------------------------------------------------------
(* Step 3 of the handler: batches and their session (server.js:148-169) *)

\* faulty variant of Slice: the end of the slice is one row too far
SliceOverlapping(rows, from) ==
    SubSeq(rows, from + 1, Min(from + BATCH_SIZE + 1, Len(rows)))

\* rows.slice(i, i + BATCH_SIZE) (server.js:157); i is a 0-based offset
Slice(rows, from) ==
    SubSeq(rows, from + 1, Min(from + BATCH_SIZE, Len(rows)))

\* faulty variant of SessionId: the offset is left out of the identifier
SessionIdNoOffset(t, key, from) == Digits(t) \o <<"_">> \o key

\* `${Date.now()}_${key}_${i}` (server.js:158)
SessionId(t, key, from) ==
    Digits(t) \o <<"_">> \o key \o <<"_">> \o Digits(from)

\* Math.floor(i / BATCH_SIZE) + 1 (server.js:165)
BatchSeq(from) == (from \div BATCH_SIZE) + 1

\* faulty variant of LastBatchFlag: > instead of >=
LastBatchFlagStrict(from, totalRows) == from + BATCH_SIZE > totalRows

\* i + BATCH_SIZE >= totalRows (server.js:166)
LastBatchFlag(from, totalRows) == from + BATCH_SIZE >= totalRows

\* i += BATCH_SIZE (server.js:156)
NextI(from) == from + BATCH_SIZE

\* the create call (server.js:81-93)
CreateCall(name) ==
    [kind |-> "create", name |-> name, subtype |-> "CUSTOM",
     customer_file_source |-> "USER_PROVIDED_ONLY"]

\* the upload call for the batch at offset from of entry (server.js:160-178)
UploadCall(aid, entry, from, t) ==
    [kind |-> "upload",
     audienceId |-> aid,
     schema |-> entry.schema,
     data |-> Slice(entry.data, from),
     session_id |-> SessionId(t, entry.key, from),
     batch_seq |-> BatchSeq(from),
     last_batch_flag |-> LastBatchFlag(from, Len(entry.data)),
     estimated_num_total |-> Len(entry.data)]

\* the first entry at or after position g whose inner loop runs at least
\* once (0 < totalRows), 0 when the outer loop is exhausted
RECURSIVE NextEntry(_, _)
NextEntry(entries, g) ==
    IF g > Len(entries) THEN 0
    ELSE IF 0 < Len(entries[g].data) THEN g
    ELSE NextEntry(entries, g + 1)

----------------------------------------------------------------------------
(* Requests and platform outcomes the model enumerates *)

NoFields == [email |-> Undefined, phone |-> Undefined, fn |-> Undefined, ln |-> Undefined]

\* customer records: two with only an email (one needing normalisation), one
\* with email and phone, one with phone and last name, one whose only field
\* is the empty string
CustomerPool ==
    { [NoFields EXCEPT !.email = Str(<<"A", "b", " ">>)],
      [NoFields EXCEPT !.email = Str(<<"b">>)],
      [NoFields EXCEPT !.email = Str(<<"b">>), !.phone = Str(<<"1">>)],
      [NoFields EXCEPT !.phone = Str(<<" ", "1">>), !.ln = Str(<<"B">>)],
      [NoFields EXCEPT !.email = Str(<<>>)] }

ShortLists == UNION { [1..n -> CustomerPool] : n \in 0..MaxCustomers }

PeriodicLists ==
    { [k \in 1..n |-> IF k % 2 = 1 THEN a ELSE b] :
        a \in CustomerPool, b \in CustomerPool, n \in (MaxCustomers + 1)..MaxPeriodic }

CustomerLists == ShortLists \cup PeriodicLists

\* req.body.customers: absent, a non-array object, or an array
CustomersInputs ==
    { [kind |-> "undefined", items |-> <<>>], [kind |-> "object", items |-> <<>>] }
    \cup { [kind |-> "array", items |-> cs] : cs \in CustomerLists }

Names == { Undefined, Str(<<"v">>) }

Requests == [name : Names, customers : CustomersInputs]

\* Array.isArray(customers); a missing customers is falsy, an array (even an
\* empty one) and an object are truthy
IsArray(customers) == customers.kind = "array"
TruthyCustomers(customers) == customers.kind # "undefined"

\* What `await fetch(...)` followed by `await response.json()` can give: an
\* exception (the fetch rejects or the body is not JSON), or the parsed body.
NumReceived == {5}

CreateOutcomes ==
    { [kind |-> "throw", error |-> FALSE, id |-> ""],
      [kind |-> "json", error |-> TRUE, id |-> ""],
      [kind |-> "json", error |-> FALSE, id |-> "aud_1"] }

UploadOutcomes ==
    { [kind |-> "throw", error |-> FALSE, hasNum |-> FALSE, num_received |-> 0],
      [kind |-> "json", error |-> TRUE, hasNum |-> FALSE, num_received |-> 0],
      [kind |-> "json", error |-> FALSE, hasNum |-> FALSE, num_received |-> 0] }
    \cup { [kind |-> "json", error |-> FALSE, hasNum |-> TRUE, num_received |-> n] :
             n \in NumReceived }

\* HTTP responses (server.js:76, 143, 190-195, 199)
MissingFields == [status |-> 400, success |-> FALSE, audienceId |-> "", uploaded |-> 0,
                  error |-> "Missing required fields"]
NoValidData == [status |-> 400, success |-> FALSE, audienceId |-> "", uploaded |-> 0,
                error |-> "No valid customer data to upload"]
Success(aid, n) == [status |-> 200, success |-> TRUE, audienceId |-> aid, uploaded |-> n,
                    error |-> ""]
ServerError(msg) == [status |-> 500, success |-> FALSE, audienceId |-> "", uploaded |-> 0,
                     error |-> msg]

----------------------------------------------------------------------------
(* The handler *)

\* the second invocation before any second request has arrived
Idle ==
    [req |-> [name |-> Undefined, customers |-> [kind |-> "undefined", items |-> <<>>]],
     pc |-> "idle", calls |-> <<>>, responses |-> <<>>, audienceId |-> "",
     fieldGroups |-> <<>>, gi |-> 0, i |-> 0, totalUploaded |-> 0, res |-> <<>>]

Init ==
    /\ req \in Requests
    /\ pc = "start"
    /\ calls = <<>>
    /\ responses = <<>>
    /\ audienceId = ""
    /\ fieldGroups = <<>>
    /\ gi = 0
    /\ i = 0
    /\ totalUploaded = 0
    /\ res = <<>>
    /\ now = 0
    /\ other = Idle

\* server.js:75: the request is rejected before the try block
InvalidBody(body) ==
    \/ ~Truthy(body.name)
    \/ ~TruthyCustomers(body.customers)
    \/ ~IsArray(body.customers)

\* faulty variant of CreateFailed: the error of the create response is not tested
CreateFailedIgnored(createData) == FALSE

\* server.js:96: if (createData.error) throw
CreateFailed(createData) == createData.error

\* faulty variant of Accumulate: = instead of +=
AccumulateOverwrite(total, uploadData) ==
    IF uploadData.error THEN total
    ELSE IF uploadData.hasNum THEN uploadData.num_received ELSE 0

\* server.js:181-186: the running total after one upload response
Accumulate(total, uploadData) ==
    IF uploadData.error THEN total
    ELSE total + (IF uploadData.hasNum THEN uploadData.num_received ELSE 0)

\* faulty variant of UploadAborts: an error object is thrown, as for the create call
UploadAbortsOnError(uploadData) == uploadData.kind = "throw" \/ uploadData.error

\* server.js:171-186: the only way an upload leaves the loops is an exception
\* of the awaited fetch or json(); an error object is logged and the loop
\* continues
UploadAborts(uploadData) == uploadData.kind = "throw"

\* the clock values a Date.now() may read: time does not go back
ClockReads == { t \in now..(now + 1) : t <= MaxClock }

\* server.js:72-93: destructure, validate, then issue the create call and
\* suspend at the first await
Receive ==
    /\ pc = "start"
    /\ IF InvalidBody(req)
       THEN /\ res' = Append(res, MissingFields)
            /\ pc' = "done"
            /\ UNCHANGED calls
       ELSE /\ calls' = Append(calls, CreateCall(req.name))
            /\ pc' = "awaitCreate"
            /\ UNCHANGED res
    /\ UNCHANGED <<req, responses, audienceId, fieldGroups, gi, i, totalUploaded, now>>
    /\ UNCHANGED other

\* faulty variant of CreateReturns: the 400 of an empty grouping is sent
\* without `return`, so the handler goes on past the (empty) loops to the
\* 200 response
CreateReturnsNoReturn(out, t) ==
    /\ pc = "awaitCreate"
    /\ responses' = Append(responses, out)
    /\ IF out.kind = "throw" \/ CreateFailed(out)
       THEN /\ res' = Append(res, ServerError("create failed"))
            /\ pc' = "done"
            /\ UNCHANGED <<calls, audienceId, fieldGroups, gi, i, now>>
       ELSE LET fg == GroupCustomers(req.customers.items)
                g == NextEntry(Entries(fg), 1)
            IN  /\ audienceId' = out.id
                /\ fieldGroups' = fg
                /\ IF g = 0
                   THEN /\ res' = res \o <<NoValidData, Success(out.id, totalUploaded)>>
                        /\ pc' = "done"
                        /\ UNCHANGED <<calls, gi, i, now>>
                   ELSE /\ calls' = Append(calls, UploadCall(out.id, Entries(fg)[g], 0, t))
                        /\ gi' = g
                        /\ i' = 0
                        /\ now' = t
                        /\ pc' = "awaitUpload"
                        /\ UNCHANGED res
    /\ UNCHANGED <<req, totalUploaded, other>>

\* server.js:95-178 and 197-200: the create call returns; on an exception or
\* an error object the catch block answers 500; otherwise the customers are
\* grouped, an empty grouping is answered 400, and the first batch of the
\* first group is issued
CreateReturns(out, t) ==
    /\ pc = "awaitCreate"
    /\ responses' = Append(responses, out)
    /\ IF out.kind = "throw"
       THEN /\ res' = Append(res, ServerError("fetch failed"))
            /\ pc' = "done"
            /\ UNCHANGED <<calls, audienceId, fieldGroups, gi, i, now>>
       ELSE IF CreateFailed(out)
       THEN /\ res' = Append(res, ServerError("Meta API error (create)"))
            /\ pc' = "done"
            /\ UNCHANGED <<calls, audienceId, fieldGroups, gi, i, now>>
       ELSE LET fg == GroupCustomers(req.customers.items)
                g == NextEntry(Entries(fg), 1)
            IN  /\ audienceId' = out.id
                /\ fieldGroups' = fg
                /\ IF Len(fg) = 0
                   THEN /\ res' = Append(res, NoValidData)
                        /\ pc' = "done"
                        /\ UNCHANGED <<calls, gi, i, now>>
                   ELSE IF g = 0
                   THEN /\ res' = Append(res, Success(out.id, totalUploaded))
                        /\ pc' = "done"
                        /\ UNCHANGED <<calls, gi, i, now>>
                   ELSE /\ calls' = Append(calls, UploadCall(out.id, Entries(fg)[g], 0, t))
                        /\ gi' = g
                        /\ i' = 0
                        /\ now' = t
                        /\ pc' = "awaitUpload"
                        /\ UNCHANGED res
    /\ UNCHANGED <<req, totalUploaded, other>>

\* server.js:180-200: an upload call returns; an exception leaves the loops
\* for the catch block (500); otherwise the total is updated (an error object
\* adds nothing) and the loops go on: next batch of the group, else first
\* batch of the next group, else the 200 response
UploadReturns(out, t) ==
    /\ pc = "awaitUpload"
    /\ responses' = Append(responses, out)
    /\ IF UploadAborts(out)
       THEN /\ res' = Append(res, ServerError("fetch failed"))
            /\ pc' = "done"
            /\ UNCHANGED <<calls, gi, i, totalUploaded, now>>
       ELSE LET total == Accumulate(totalUploaded, out)
                entries == Entries(fieldGroups)
                i2 == NextI(i)
                g2 == NextEntry(entries, gi + 1)
            IN  /\ totalUploaded' = total
                /\ IF i2 < Len(entries[gi].data)
                   THEN /\ calls' = Append(calls, UploadCall(audienceId, entries[gi], i2, t))
                        /\ i' = i2
                        /\ now' = t
                        /\ UNCHANGED <<gi, pc, res>>
                   ELSE IF g2 # 0
                   THEN /\ calls' = Append(calls, UploadCall(audienceId, entries[g2], 0, t))
                        /\ gi' = g2
                        /\ i' = 0
                        /\ now' = t
                        /\ UNCHANGED <<pc, res>>
                   ELSE /\ res' = Append(res, Success(audienceId, total))
                        /\ pc' = "done"
                        /\ UNCHANGED <<calls, gi, i, now>>
    /\ UNCHANGED <<req, audienceId, fieldGroups, other>>

Next ==
    \/ Receive
    \/ \E out \in CreateOutcomes, t \in ClockReads : CreateReturns(out, t)
    \/ \E out \in UploadOutcomes, t \in ClockReads : UploadReturns(out, t)

Spec == Init /\ [][Next]_vars

\* The event loop resumes a handler whose awaited call has returned, and
\* every outbound call eventually returns.
FairSpec == Spec /\ WF_vars(Next)

----------------------------------------------------------------------------
(* Two requests handled concurrently *)

\* Every invocation of the handler has its own req, res and const/let
\* variables (server.js:73-157); the module-level names (accessToken,
\* accountId, account, app; server.js:6-25) are never assigned by the
\* handler.  The first invocation runs on the variables above, the second on
\* the record `other`; they interleave at the awaits and share the clock.
\* The three operators below are the three segments of the handler on such a
\* record.

\* server.js:72-93
ReceiveStep(h) ==
    IF InvalidBody(h.req)
    THEN [h EXCEPT !.res = Append(@, MissingFields), !.pc = "done"]
    ELSE [h EXCEPT !.calls = Append(@, CreateCall(h.req.name)), !.pc = "awaitCreate"]

\* server.js:95-178 and 197-200
CreateReturnsStep(h, out, t) ==
    LET h1 == [h EXCEPT !.responses = Append(@, out)] IN
    IF out.kind = "throw"
    THEN [h1 EXCEPT !.res = Append(@, ServerError("fetch failed")), !.pc = "done"]
    ELSE IF CreateFailed(out)
    THEN [h1 EXCEPT !.res = Append(@, ServerError("Meta API error (create)")),
                    !.pc = "done"]
    ELSE LET fg == GroupCustomers(h.req.customers.items)
             g == NextEntry(Entries(fg), 1)
             h2 == [h1 EXCEPT !.audienceId = out.id, !.fieldGroups = fg]
         IN  IF Len(fg) = 0
             THEN [h2 EXCEPT !.res = Append(@, NoValidData), !.pc = "done"]
             ELSE IF g = 0
             THEN [h2 EXCEPT !.res = Append(@, Success(out.id, h.totalUploaded)),
                             !.pc = "done"]
             ELSE [h2 EXCEPT !.calls = Append(@, UploadCall(out.id, Entries(fg)[g], 0, t)),
                             !.gi = g, !.i = 0, !.pc = "awaitUpload"]

\* server.js:180-200
UploadReturnsStep(h, out, t) ==
    LET h1 == [h EXCEPT !.responses = Append(@, out)] IN
    IF UploadAborts(out)
    THEN [h1 EXCEPT !.res = Append(@, ServerError("fetch failed")), !.pc = "done"]
    ELSE LET total == Accumulate(h.totalUploaded, out)
             entries == Entries(h.fieldGroups)
             i2 == NextI(h.i)
             g2 == NextEntry(entries, h.gi + 1)
             h2 == [h1 EXCEPT !.totalUploaded = total]
         IN  IF i2 < Len(entries[h.gi].data)
             THEN [h2 EXCEPT !.calls = Append(@, UploadCall(h.audienceId, entries[h.gi], i2, t)),
                             !.i = i2]
             ELSE IF g2 # 0
             THEN [h2 EXCEPT !.calls = Append(@, UploadCall(h.audienceId, entries[g2], 0, t)),
                             !.gi = g2, !.i = 0]
             ELSE [h2 EXCEPT !.res = Append(@, Success(h.audienceId, total)),
                             !.pc = "done"]

\* Date.now() is read exactly when an upload call is built (server.js:158)
ClockAfter(h, h2, t) == IF Len(h2.calls) > Len(h.calls) /\ h2.pc = "awaitUpload" THEN t ELSE now

\* the platform answers the second request's create call with an id of its own
OtherCreateOutcomes ==
    { [kind |-> "throw", error |-> FALSE, id |-> ""],
      [kind |-> "json", error |-> TRUE, id |-> ""],
      [kind |-> "json", error |-> FALSE, id |-> "aud_2"] }

\* the outcomes of an upload call in the concurrent runs: an exception, an
\* error object, or a count
ConcUploadOutcomes == { o \in UploadOutcomes : o.kind = "throw" \/ o.error \/ o.hasNum }

OtherReceive ==
    /\ other.pc = "start"
    /\ other' = ReceiveStep(other)
    /\ UNCHANGED <<req, pc, calls, responses, audienceId, fieldGroups, gi, i,
                   totalUploaded, res, now>>

OtherCreateReturns(out, t) ==
    /\ other.pc = "awaitCreate"
    /\ other' = CreateReturnsStep(other, out, t)
    /\ now' = ClockAfter(other, other', t)
    /\ UNCHANGED <<req, pc, calls, responses, audienceId, fieldGroups, gi, i,
                   totalUploaded, res>>

\* faulty variant of OtherUploadReturns: totalUploaded is one module-level
\* variable, read and written by both invocations
OtherUploadReturnsSharedTotal(out, t) ==
    /\ other.pc = "awaitUpload"
    /\ other' = UploadReturnsStep([other EXCEPT !.totalUploaded = totalUploaded], out, t)
    /\ totalUploaded' = other'.totalUploaded
    /\ now' = ClockAfter(other, other', t)
    /\ UNCHANGED <<req, pc, calls, responses, audienceId, fieldGroups, gi, i, res>>

OtherUploadReturns(out, t) ==
    /\ other.pc = "awaitUpload"
    /\ other' = UploadReturnsStep(other, out, t)
    /\ now' = ClockAfter(other, other', t)
    /\ UNCHANGED <<req, pc, calls, responses, audienceId, fieldGroups, gi, i,
                   totalUploaded, res>>

\* the requests of the concurrent runs: a name and an array of at most
\* MaxConcCustomers customers
ConcPool ==
    { [NoFields EXCEPT !.email = Str(<<"A", "b", " ">>)],
      [NoFields EXCEPT !.email = Str(<<"b">>), !.phone = Str(<<"1">>)] }

ConcRequests ==
    { [name |-> Str(<<"v">>), customers |-> [kind |-> "array", items |-> cs]] :
        cs \in UNION { [1..n -> ConcPool] : n \in 0..MaxConcCustomers } }

ConcInit ==
    /\ req \in ConcRequests
    /\ pc = "start"
    /\ calls = <<>>
    /\ responses = <<>>
    /\ audienceId = ""
    /\ fieldGroups = <<>>
    /\ gi = 0
    /\ i = 0
    /\ totalUploaded = 0
    /\ res = <<>>
    /\ now = 0
    /\ \E r2 \in ConcRequests : other = [Idle EXCEPT !.req = r2, !.pc = "start"]

ConcNext ==
    \/ Receive
    \/ \E out \in CreateOutcomes, t \in ClockReads : CreateReturns(out, t)
    \/ \E out \in ConcUploadOutcomes, t \in ClockReads : UploadReturns(out, t)
    \/ OtherReceive
    \/ \E out \in OtherCreateOutcomes, t \in ClockReads : OtherCreateReturns(out, t)
    \/ \E out \in ConcUploadOutcomes, t \in ClockReads : OtherUploadReturns(out, t)

SpecConc == ConcInit /\ [][ConcNext]_vars

----------------------------------------------------------------------------
(* Vocabulary of the properties *)

UploadCalls == SelectSeq(calls, LAMBDA c : c.kind = "upload")

\* [schema, data] of every upload call, in issue order
UploadPayloads ==
    LET uc == UploadCalls
    IN  [k \in 1..Len(uc) |-> [schema |-> uc[k].schema, data |-> uc[k].data]]

\* outcomes of the upload calls answered so far, in order
UploadResponses == SubSeq(responses, 2, Len(responses))

Outstanding == Len(calls) - Len(responses)

Responded(status) == Len(res) >= 1 /\ res[Len(res)].status = status

CreationSucceeded ==
    Len(responses) >= 1 /\ responses[1].kind = "json" /\ ~responses[1].error

CreationReturnedError ==
    Len(responses) >= 1 /\ responses[1].kind = "json" /\ responses[1].error

IsPrefix(s, t) == Len(s) <= Len(t) /\ SubSeq(t, 1, Len(s)) = s

CeilDiv(n, d) == (n + d - 1) \div d

\* The batches a request is expected to upload, derived from the customers
\* array alone: the set of present fields of a record, the distinct sets in
\* order of first appearance, the rows of each set in input order, cut into
\* consecutive chunks of BATCH_SIZE.
CanonicalFields == <<"email", "phone", "fn", "ln">>
CanonicalNames == <<"EMAIL", "PHONE", "FN", "LN">>

Present(c) == { k \in 1..4 : Truthy(c[CanonicalFields[k]]) }

Ascending(S) == SelectSeq(<<1, 2, 3, 4>>, LAMBDA k : k \in S)

SchemaOf(S) ==
    LET idx == Ascending(S) IN [j \in 1..Len(idx) |-> CanonicalNames[idx[j]]]

ExpectedRow(c) ==
    LET idx == Ascending(Present(c))
    IN  [j \in 1..Len(idx) |-> hashData(c[CanonicalFields[idx[j]]])]

RECURSIVE FirstSeen(_, _)
FirstSeen(cs, seen) ==
    IF Len(cs) = 0 THEN <<>>
    ELSE LET S == Present(Head(cs)) IN
         IF S = {} \/ S \in seen THEN FirstSeen(Tail(cs), seen)
         ELSE <<S>> \o FirstSeen(Tail(cs), seen \cup {S})

RowsOf(cs, S) ==
    LET members == SelectSeq(cs, LAMBDA c : Present(c) = S)
    IN  [k \in 1..Len(members) |-> ExpectedRow(members[k])]

Chunks(schema, rows) ==
    [k \in 1..CeilDiv(Len(rows), BATCH_SIZE) |->
        [schema |-> schema,
         data |-> SubSeq(rows, (k - 1) * BATCH_SIZE + 1, Min(k * BATCH_SIZE, Len(rows)))]]

RECURSIVE ChunksOfAll(_, _)
ChunksOfAll(cs, sigs) ==
    IF Len(sigs) = 0 THEN <<>>
    ELSE Chunks(SchemaOf(Head(sigs)), RowsOf(cs, Head(sigs)))
         \o ChunksOfAll(cs, Tail(sigs))

ExpectedBatches == ChunksOfAll(req.customers.items, FirstSeen(req.customers.items, {}))

RECURSIVE SumSeq(_)
SumSeq(s) == IF Len(s) = 0 THEN 0 ELSE Head(s) + SumSeq(Tail(s))

----------------------------------------------------------------------------
(* C1 *)

\* C1: when the audience-creation call returns an error object, the request
\* has ended with HTTP 500 and no upload call was issued.
C1_CreateErrorIs500NoUpload ==
    CreationReturnedError =>
        /\ pc = "done"
        /\ Responded(500)
        /\ Len(res) = 1
        /\ Len(UploadCalls) = 0

C1_Witness ==
    /\ CreationReturnedError
    /\ Len(req.customers.items) >= 1
    /\ Present(req.customers.items[1]) # {}
    /\ pc = "done"

----------------------------------------------------------------------------
(* C2 *)

\* the step in which an upload call is answered with an error object
UploadErrorStep ==
    /\ pc = "awaitUpload"
    /\ Len(responses') = Len(responses) + 1
    /\ responses'[Len(responses')].kind = "json"
    /\ responses'[Len(responses')].error

\* C2: an error object returned for a batch never aborts the rest.  The
\* upload calls issued are always the first expected batches, one call each;
\* the step that receives an error object issues the next expected batch when
\* one remains and otherwise answers 200; a request answered 200 has sent
\* every batch of every group in exactly one call.
C2_BatchErrorDoesNotAbort ==
    /\ [](IsPrefix(UploadPayloads, ExpectedBatches))
    /\ [](Responded(200) => UploadPayloads = ExpectedBatches)
    /\ [][UploadErrorStep =>
            IF Len(UploadCalls) < Len(ExpectedBatches)
            THEN /\ Len(UploadCalls') = Len(UploadCalls) + 1
                 /\ pc' = "awaitUpload"
                 /\ Len(res') = 0
            ELSE Responded(200)']_vars

\* a request of three batches whose first two were answered with an error
\* object and which still sent the third and answered 200
C2_Witness ==
    /\ Responded(200)
    /\ Len(UploadCalls) = 3
    /\ UploadResponses[1].error
    /\ UploadResponses[2].error
    /\ UploadPayloads = ExpectedBatches

----------------------------------------------------------------------------
(* C3 *)

\* what one upload response contributes to `uploaded`
Contribution(r) ==
    IF r.kind = "json" /\ ~r.error /\ r.hasNum THEN r.num_received ELSE 0

\* C3: the uploaded value of a 200 response is the sum of num_received over
\* the upload responses without an error, a missing num_received counting 0.
C3_UploadedIsSumOfReceived ==
    Responded(200) =>
        LET ur == UploadResponses IN
        /\ res[Len(res)].success
        /\ res[Len(res)].uploaded =
             SumSeq([k \in 1..Len(ur) |-> Contribution(ur[k])])

\* scenario D: two batches, the first errors, the second reports 5
C3_Witness ==
    /\ Responded(200)
    /\ Len(UploadResponses) = 2
    /\ UploadResponses[1].error
    /\ ~UploadResponses[2].error /\ UploadResponses[2].hasNum
    /\ UploadResponses[2].num_received = 5
    /\ res[Len(res)].uploaded = 5
    /\ res[Len(res)].success

----------------------------------------------------------------------------
(* C4 *)

SomeValidCustomer ==
    \E k \in 1..Len(req.customers.items) : Present(req.customers.items[k]) # {}

\* C4: once audience creation has succeeded and some record has a valid
\* identifier, the request ends with HTTP 200 and success = true whatever the
\* outcome of each batch upload.
C4_NeverFailsOnBatchOutcome ==
    (pc = "done" /\ CreationSucceeded /\ SomeValidCustomer) =>
        (Responded(200) /\ res[Len(res)].success)

----------------------------------------------------------------------------
(* C5 *)

ClientInputError == InvalidBody(req) \/ ~SomeValidCustomer

\* C5: a client input error (name missing, customers missing or not an
\* array, or no customer with an identifier) is answered 400 with no partial
\* work: at the moment the 400 is sent, no outbound platform call (creation
\* or upload) has been made for the request.
C5_NoCallBefore400 ==
    (ClientInputError /\ Responded(400)) => Len(calls) = 0

----------------------------------------------------------------------------
(* C6 *)

\* C6: outbound calls are sequential and ordered: at most one call is
\* outstanding; the first call is the creation call and every later call is
\* an upload issued after creation succeeded; the upload calls are the
\* expected batches in order of first appearance of their group in the input
\* and, within a group, in chunk order; a call is issued only when every
\* earlier call has been answered.
C6_SequentialOrdered ==
    /\ Outstanding \in {0, 1}
    /\ \A k \in 1..Len(calls) : (calls[k].kind = "create") <=> (k = 1)
    /\ Len(calls) >= 2 => CreationSucceeded
    /\ Len(responses) >= Len(calls) - 1
    /\ IsPrefix(UploadPayloads, ExpectedBatches)

\* two groups, the first seen of three rows (two chunks): the second chunk
\* of the first group is outstanding, the second group not yet issued
C6_Witness ==
    /\ Len(UploadCalls) = 2
    /\ Outstanding = 1
    /\ Len(ExpectedBatches) = 3
    /\ UploadCalls[1].schema = UploadCalls[2].schema
    /\ ExpectedBatches[3].schema # UploadCalls[2].schema

----------------------------------------------------------------------------
(* C7 *)

\* the upload calls that declare the schema, in issue order
CallsOf(schema) == SelectSeq(UploadCalls, LAMBDA c : c.schema = schema)

RECURSIVE Concat(_)
Concat(ss) == IF Len(ss) = 0 THEN <<>> ELSE Head(ss) \o Concat(Tail(ss))

DataOf(schema) ==
    LET cs == CallsOf(schema) IN [k \in 1..Len(cs) |-> cs[k].data]

GroupSigs == FirstSeen(req.customers.items, {})

\* C7: every batch has between 1 and BATCH_SIZE rows; the batches of a group
\* concatenated in issue order are a prefix of the group's rows and, once
\* the request is answered 200, exactly the group's rows, so the sizes sum to
\* the row count.
C7_BatchesAreContiguousSlices ==
    LET uc == UploadCalls
        sigs == GroupSigs
    IN  /\ \A k \in 1..Len(uc) : Len(uc[k].data) \in 1..BATCH_SIZE
        /\ \A g \in 1..Len(sigs) :
              LET rows == RowsOf(req.customers.items, sigs[g])
                  batches == DataOf(SchemaOf(sigs[g]))
                  sent == Concat(batches)
              IN  /\ IsPrefix(sent, rows)
                  /\ Responded(200) =>
                        /\ sent = rows
                        /\ SumSeq([k \in 1..Len(batches) |-> Len(batches[k])])
                              = Len(rows)

\* a group of 2 * BATCH_SIZE + 1 rows, neighbouring rows different, sent in
\* three batches
C7_Witness ==
    /\ Responded(200)
    /\ \E g \in 1..Len(GroupSigs) :
          LET rows == RowsOf(req.customers.items, GroupSigs[g])
          IN  /\ Len(rows) = 2 * BATCH_SIZE + 1
              /\ \A k \in 1..(Len(rows) - 1) : rows[k] # rows[k + 1]
              /\ Len(CallsOf(SchemaOf(GroupSigs[g]))) = 3

----------------------------------------------------------------------------
(* C8 *)

\* C8: the k-th upload call of a group of n rows carries batch_seq = k and
\* last_batch_flag = (k = ceil(n / BATCH_SIZE)); a request answered 200 has
\* issued exactly ceil(n / BATCH_SIZE) calls for the group.
C8_SeqAndLastFlag ==
    LET sigs == GroupSigs IN
    \A g \in 1..Len(sigs) :
        LET n == Len(RowsOf(req.customers.items, sigs[g]))
            cs == CallsOf(SchemaOf(sigs[g]))
        IN  /\ Len(cs) <= CeilDiv(n, BATCH_SIZE)
            /\ \A k \in 1..Len(cs) :
                  /\ cs[k].batch_seq = k
                  /\ cs[k].last_batch_flag <=> (k = CeilDiv(n, BATCH_SIZE))
            /\ Responded(200) => Len(cs) = CeilDiv(n, BATCH_SIZE)

\* a group of 2 * BATCH_SIZE + 1 rows sent as [BATCH_SIZE, BATCH_SIZE, 1]
\* with flags [false, false, true], and a group of at most BATCH_SIZE rows
\* sent as one batch with batch_seq 1 and the flag set
C8_Witness ==
    /\ Responded(200)
    /\ \E g \in 1..Len(GroupSigs) :
          LET cs == CallsOf(SchemaOf(GroupSigs[g]))
          IN  /\ Len(RowsOf(req.customers.items, GroupSigs[g])) = 2 * BATCH_SIZE + 1
              /\ Len(cs) = 3
              /\ <<Len(cs[1].data), Len(cs[2].data), Len(cs[3].data)>>
                    = <<BATCH_SIZE, BATCH_SIZE, 1>>
              /\ <<cs[1].last_batch_flag, cs[2].last_batch_flag, cs[3].last_batch_flag>>
                    = <<FALSE, FALSE, TRUE>>

C8_WitnessSingle ==
    /\ Responded(200)
    /\ \E g \in 1..Len(GroupSigs) :
          LET cs == CallsOf(SchemaOf(GroupSigs[g]))
          IN  /\ Len(RowsOf(req.customers.items, GroupSigs[g])) = BATCH_SIZE
              /\ Len(cs) = 1
              /\ cs[1].batch_seq = 1
              /\ cs[1].last_batch_flag

----------------------------------------------------------------------------
(* C9 *)

\* C9: no two upload calls of a request carry the same session_id.
C9_SessionIdsDistinct ==
    LET uc == UploadCalls IN
    \A j, k \in 1..Len(uc) : j # k => uc[j].session_id # uc[k].session_id

\* three upload calls, two of one group and one of another, all issued
\* while the clock read the same value
C9_Witness ==
    /\ Len(UploadCalls) = 3
    /\ now = 0
    /\ UploadCalls[1].schema = UploadCalls[2].schema
    /\ UploadCalls[3].schema # UploadCalls[1].schema

----------------------------------------------------------------------------
(* C10 *)

IsCanonicalSchema(schema) ==
    /\ Len(schema) >= 1
    /\ \E S \in SUBSET (1..4) : S # {} /\ schema = SchemaOf(S)

FieldOf(name) ==
    CanonicalFields[CHOOSE k \in 1..4 : CanonicalNames[k] = name]

\* C10: the schema of every upload call is a non-empty subsequence of
\* [EMAIL, PHONE, FN, LN]; every row has one entry per schema entry and is
\* the row of a customer of the request whose present fields are exactly the
\* schema's, the k-th entry being the hash of the field the k-th schema entry
\* names.
C10_RowsMatchSchema ==
    LET uc == UploadCalls IN
    \A n \in 1..Len(uc) :
        LET c == uc[n] IN
        /\ IsCanonicalSchema(c.schema)
        /\ \A r \in 1..Len(c.data) :
              /\ Len(c.data[r]) = Len(c.schema)
              /\ \E m \in 1..Len(req.customers.items) :
                    LET cust == req.customers.items[m] IN
                    /\ SchemaOf(Present(cust)) = c.schema
                    /\ \A k \in 1..Len(c.schema) :
                          c.data[r][k] = hashData(cust[FieldOf(c.schema[k])])

\* calls with a one-column and a two-column schema in one request, the
\* one-column call carrying a normalised email
C10_Witness ==
    /\ \E n \in 1..Len(UploadCalls) :
          /\ UploadCalls[n].schema = <<"EMAIL">>
          /\ \E r \in 1..Len(UploadCalls[n].data) :
                UploadCalls[n].data[r] = <<sha256hex(<<"a", "b">>)>>
    /\ \E n \in 1..Len(UploadCalls) : UploadCalls[n].schema = <<"EMAIL", "PHONE">>

----------------------------------------------------------------------------
(* C11 *)

\* the customers of cs with at least one present identifier
ValidCustomers(cs) == SelectSeq(cs, LAMBDA c : Present(c) # {})

\* C11: grouping partitions the input.  Once the customers are grouped, the
\* groups have pairwise different schemas; the group of a schema holds
\* exactly the rows of the customers whose present fields are the schema's,
\* one row each, in input order; every customer with an identifier has its
\* group and a customer without one has none, so the rows of all groups
\* number the customers with an identifier; and a request answered 200 has
\* uploaded that many rows over all its batches.
C11_GroupingPartitions ==
    CreationSucceeded =>
        LET cs == req.customers.items
            fg == fieldGroups
            uc == UploadCalls
        IN  /\ \A j, k \in 1..Len(fg) : j # k => fg[j].schema # fg[k].schema
            /\ \A g \in 1..Len(fg) :
                  \E S \in (SUBSET (1..4)) \ {{}} :
                     /\ fg[g].schema = SchemaOf(S)
                     /\ fg[g].data = RowsOf(cs, S)
            /\ \A m \in 1..Len(cs) :
                  (Present(cs[m]) # {}) <=>
                     (\E g \in 1..Len(fg) : fg[g].schema = SchemaOf(Present(cs[m])))
            /\ SumSeq([g \in 1..Len(fg) |-> Len(fg[g].data)]) = Len(ValidCustomers(cs))
            /\ Responded(200) =>
                  SumSeq([k \in 1..Len(uc) |-> Len(uc[k].data)]) = Len(ValidCustomers(cs))

\* a request answered 200 whose customers are: one with an email, one with
\* no identifier, one with the same field set as the first but another email
C11_Witness ==
    /\ Responded(200)
    /\ Len(req.customers.items) = 3
    /\ Present(req.customers.items[1]) = {1}
    /\ Present(req.customers.items[2]) = {}
    /\ Present(req.customers.items[3]) = {1}
    /\ ExpectedRow(req.customers.items[1]) # ExpectedRow(req.customers.items[3])
    /\ Len(fieldGroups) = 1
    /\ Len(fieldGroups[1].data) = 2

----------------------------------------------------------------------------
(* C12 *)

\* the first invocation as a record like `other`
Cur ==
    [req |-> req, pc |-> pc, calls |-> calls, responses |-> responses,
     audienceId |-> audienceId, fieldGroups |-> fieldGroups, gi |-> gi, i |-> i,
     totalUploaded |-> totalUploaded, res |-> res]

\* what the claim compares of an outbound call: everything but the session_id
\* and the estimate
CallView(c) ==
    IF c.kind = "create" THEN c
    ELSE [kind |-> "upload", audienceId |-> c.audienceId, schema |-> c.schema,
          data |-> c.data, batch_seq |-> c.batch_seq,
          last_batch_flag |-> c.last_batch_flag]

\* the upload calls of one group of a request that runs alone
SoloGroupCalls(aid, schema, rows) ==
    LET n == CeilDiv(Len(rows), BATCH_SIZE) IN
    [k \in 1..n |->
        [kind |-> "upload", audienceId |-> aid, schema |-> schema,
         data |-> SubSeq(rows, (k - 1) * BATCH_SIZE + 1, Min(k * BATCH_SIZE, Len(rows))),
         batch_seq |-> k, last_batch_flag |-> (k = n)]]

RECURSIVE SoloUploads(_, _, _)
SoloUploads(aid, cs, sigs) ==
    IF Len(sigs) = 0 THEN <<>>
    ELSE SoloGroupCalls(aid, SchemaOf(Head(sigs)), RowsOf(cs, Head(sigs)))
         \o SoloUploads(aid, cs, Tail(sigs))

\* The outbound calls and the HTTP responses of a request rq that runs alone
\* and has left the start, as a function of rq and of the outcomes rs its
\* own calls have received so far.
SoloRun(rq, rs) ==
    LET create == <<CreateCall(rq.name)>> IN
    IF InvalidBody(rq) THEN [calls |-> <<>>, res |-> <<MissingFields>>]
    ELSE IF Len(rs) = 0 THEN [calls |-> create, res |-> <<>>]
    ELSE IF rs[1].kind = "throw"
    THEN [calls |-> create, res |-> <<ServerError("fetch failed")>>]
    ELSE IF rs[1].error
    THEN [calls |-> create, res |-> <<ServerError("Meta API error (create)")>>]
    ELSE LET cs == rq.customers.items
             ex == SoloUploads(rs[1].id, cs, FirstSeen(cs, {}))
             ur == Tail(rs)
         IN  IF Len(ex) = 0 THEN [calls |-> create, res |-> <<NoValidData>>]
             ELSE IF \E k \in 1..Len(ur) : ur[k].kind = "throw"
             THEN [calls |-> create \o SubSeq(ex, 1, Len(ur)),
                   res |-> <<ServerError("fetch failed")>>]
             ELSE IF Len(ur) = Len(ex)
             THEN [calls |-> create \o ex,
                   res |-> <<Success(rs[1].id,
                                     SumSeq([k \in 1..Len(ur) |-> Contribution(ur[k])]))>>]
             ELSE [calls |-> create \o SubSeq(ex, 1, Len(ur) + 1), res |-> <<>>]

\* the invocation h has done what its request does alone
AsAlone(h) ==
    h.pc # "start" =>
        LET solo == SoloRun(h.req, h.responses)
        IN  /\ [k \in 1..Len(h.calls) |-> CallView(h.calls[k])] = solo.calls
            /\ h.res = solo.res

\* the audience ids the platform has returned to the create call of h
CreatedBy(h) ==
    IF Len(h.responses) >= 1 /\ h.responses[1].kind = "json" /\ ~h.responses[1].error
    THEN {h.responses[1].id} ELSE {}

TargetsOf(h) ==
    { h.calls[k].audienceId : k \in { n \in 1..Len(h.calls) : h.calls[n].kind = "upload" } }

\* C12: two requests whose steps interleave at every await are independent:
\* the outbound calls (audience id, schema, rows, batch_seq, last_batch_flag)
\* and the response of each are those of the request running alone with the
\* outcomes its own calls received; no upload of one targets the audience
\* created for the other.
C12_ConcurrentRequestsIndependent ==
    /\ AsAlone(Cur)
    /\ AsAlone(other)
    /\ TargetsOf(Cur) \cap CreatedBy(other) = {}
    /\ TargetsOf(other) \cap CreatedBy(Cur) = {}

\* a single request does what SoloRun says
SoloRunIsTheHandler == AsAlone(Cur)

\* both requests are suspended at their second upload call at the same
\* time, each after one answered upload, with different running totals
C12_Witness ==
    /\ pc = "awaitUpload"
    /\ other.pc = "awaitUpload"
    /\ Len(responses) = 2
    /\ Len(other.responses) = 2
    /\ totalUploaded = 5
    /\ other.totalUploaded = 0
    /\ calls[3].audienceId = "aud_1"
    /\ other.calls[3].audienceId = "aud_2"
    /\ req # other.req

----------------------------------------------------------------------------
(* C13 *)

\* C13: provided every outbound call eventually returns, the request
\* terminates; it never has sent more than one HTTP response; when it has
\* terminated it has sent exactly one, of status 400, 500 or 200; a response
\* is sent only by the step that ends the handler; and no outbound call is
\* issued once a response has been sent.
C13_TerminatesWithOneResponse ==
    /\ <>(pc = "done")
    /\ [](Len(res) <= 1)
    /\ [](pc = "done" <=> Len(res) = 1)
    /\ [](\A k \in 1..Len(res) : res[k].status \in {400, 500, 200})
    /\ [][Len(res) >= 1 => (calls' = calls /\ res' = res)]_vars

\* the early return inside the try block: creation succeeded, no customer
\* has an identifier, and the request ended with the single response 400
C13_Witness ==
    /\ pc = "done"
    /\ CreationSucceeded
    /\ Len(req.customers.items) >= 1
    /\ res = <<NoValidData>>
    /\ Len(calls) = 1

=============================================================================
